---- MODULE Spec2Model ----
(***************************************************************************)
(* Model of the MAC streaming instrumentation:                             *)
(*   instrumentation/trace_collector.py   (TraceCollector, the store)      *)
(*   instrumentation/agent_attribution.py (thread-local agent id)          *)
(*   instrumentation/instrumented_client.py (InstrumentedCompletions)      *)
(*                                                                         *)
(* Text is a sequence of characters, so that ''.join and str.split are     *)
(* computed, not assumed.  An optional value is a sequence of length <= 1  *)
(* (<<>> is None).  The TurnTrace in progress is referenced only by        *)
(* _current_turn until end_turn moves it to _turns, so it is held by       *)
(* value; a finalized turn is referred to by its turn_id.  A block under   *)
(* `with self._data_lock:` is one atomic step; what record_token does      *)
(* before it takes the lock are steps of their own.                        *)
(***************************************************************************)
EXTENDS Integers, Sequences, FiniteSets, TLC

\* ------------------------------------------------------------- bounds
\* start_turn calls between two clear() calls
MaxTurns == 2
\* record_token calls issued between two start_turn calls
MaxTokens == 2
\* largest value the millisecond clock reaches
MaxClock == 1

Threads == {"t1", "t2"}
MainThread == "t1"
Agents == {"Doctor0", "Doctor1"}
\* texts handed to record_token / end_turn by direct callers of the store
TokenTexts == {<<"a">>, <<" ", "b">>}
ContentTexts == {<<>>, <<"a">>}
\* under concurrent use every thread passes its own agent and texts
ThreadAgent(t) == IF t = MainThread THEN "Doctor0" ELSE "Doctor1"
ThreadToken(t) == IF t = MainThread THEN <<"a">> ELSE <<" ", "b">>
ThreadContent(t) == IF t = MainThread THEN <<"a">> ELSE <<>>
\* the agents a thread opens agent_context blocks for
ThreadAgents(t) == IF t = MainThread THEN Agents ELSE {ThreadAgent(t)}

\* ------------------------------------------------------------- values
\* Python None, for an optional value held as a sequence of length <= 1
None == <<>>
Some(x) == <<x>>
IsNone(o) == o = <<>>
Val(o) == o[1]

\* mutant: the new turn does not start with an empty emissions list
NewTurnTraceSharedList(turn_id, agent_id, t_start) ==
    [turn_id |-> turn_id, agent_id |-> agent_id, content |-> <<>>,
     t_start_ms |-> t_start, t_end_ms |-> 0, duration_ms |-> 0,
     token_emissions |-> <<[token |-> <<"a">>, t_emitted_ms |-> 0, seq |-> 0]>>]
\* TurnTrace(turn_id, agent_id, content="", t_start_ms, t_end_ms=0,
\*           duration_ms=0, token_emissions=[])
NewTurnTrace(turn_id, agent_id, t_start) ==
    [turn_id |-> turn_id, agent_id |-> agent_id, content |-> <<>>,
     t_start_ms |-> t_start, t_end_ms |-> 0, duration_ms |-> 0,
     token_emissions |-> <<>>]

\* TokenEmission(token, t_emitted_ms, seq)
TokenEmission(token, t_emitted, seq) ==
    [token |-> token, t_emitted_ms |-> t_emitted, seq |-> seq]

\* outcome of the last store operation a thread called (ret: the turn_id
\* start_turn returned, the turn_id of the TurnTrace end_turn returned,
\* None otherwise)
Running(op) == [op |-> op, status |-> "running", ret |-> None]
Returned(op, ret) == [op |-> op, status |-> "returned", ret |-> ret]
Raised(op) == [op |-> op, status |-> "raised", ret |-> None]
NoCall == [op |-> "none", status |-> "returned", ret |-> None]

\* ------------------------------------------------- create(): values
\* largest number of chunks a stream yields
MaxChunks == 2

\* the caller's keyword arguments: the `stream` and `stream_options`
\* entries, each absent or present ("caller": an option object of the caller)
Kwargs(stream, stream_options) ==
    [stream |-> stream, stream_options |-> stream_options]
KwargsSet == {Kwargs("absent", "absent"), Kwargs("False", "caller"),
              Kwargs("True", "absent"), Kwargs("True", "caller")}
NoKwargs == Kwargs("absent", "absent")

\* exceptions the transport raises
Errors == {"APIError", "APITimeoutError"}
\* what a non-streaming transport call returns
TransportResponse ==
    [kind |-> "ChatCompletion", id |-> "chatcmpl-direct", model |-> "gpt-test",
     created |-> 1234567890, role |-> "assistant", content |-> <<"d">>,
     finish_reason |-> "stop",
     usage |-> [prompt_tokens |-> 7, completion_tokens |-> 1, total_tokens |-> 8]]
\* what a streaming transport call returns to a caller that asked for it
TransportStream == [kind |-> "Stream"]
\* a usage payload carried by a chunk
ChunkUsage == [prompt_tokens |-> 7, completion_tokens |-> 2, total_tokens |-> 9]
\* id, model and created of a chunk that carries them
ChunkMeta == [id |-> "chatcmpl-test", model |-> "gpt-test", created |-> 1234567890]

\* content fragments a delta carries; <<>> is the empty string
Fragments == {<<>>, <<"a">>, <<" ", "b">>}
\* a chunk: meta (None when the attributes are missing), choice (None when
\* `choices` is missing or empty), usage (None when missing or None).  A
\* choice has content (None when the delta is missing or has no content)
\* and finish_reason (None when missing or None).
Choices == [content : {None} \cup {Some(f) : f \in Fragments},
            finish_reason : {None, Some("stop")}]
Chunk(meta, choice, usage) == [meta |-> meta, choice |-> choice, usage |-> usage]
\* the chunks a stream yields: any choice or none on a chunk with meta, a
\* chunk without meta (with or without content), and the terminal chunk of
\* include_usage, which has no choice and carries the usage payload
Chunks ==
    {Chunk(Some(ChunkMeta), c, None) : c \in {None} \cup {Some(x) : x \in Choices}}
    \cup {Chunk(None, None, None),
          Chunk(None, Some([content |-> Some(<<"a">>), finish_reason |-> None]), None),
          Chunk(Some(ChunkMeta), None, Some(ChunkUsage))}

\* the frame of a create() call: position, arguments, locals of
\* _reconstruct_from_stream, the transport calls made, the outcome
NoCreate ==
    [cpc |-> "none", request |-> NoKwargs, kwargs |-> NoKwargs, requests |-> <<>>,
     chunks |-> <<>>, content_parts |-> <<>>, first_chunk |-> None,
     usage |-> None, finish_reason |-> None,
     caught |-> None, failed_at |-> "none",
     status |-> "none", response |-> None, error |-> None,
     base |-> [turns |-> <<>>, turn_counter |-> 0, current_turn |-> None,
               current_seq |-> 0]]

\* one call of self._original.create(**kwargs) and what the transport did
TransportCall(kw, returned, raised) ==
    [kwargs |-> kw, returned |-> returned, raised |-> raised]

VARIABLES
    _turns,          \* TraceCollector._turns: the finalized turns
    _turn_counter,   \* TraceCollector._turn_counter
    _current_turn,   \* TraceCollector._current_turn: None or Some(turn)
    _current_seq,    \* TraceCollector._current_seq
    now,             \* int(time.time() * 1000)
    pc,              \* per thread: position inside record_token
    l_text,          \* per thread: record_token's token while it runs,
                     \* else the content of its last end_turn
    l_emitted,       \* per thread: record_token's local t_emitted
    result,          \* per thread: outcome of the last store call
    issued,          \* turn_ids returned by start_turn since the last clear
    ended,           \* turn_ids of the turns end_turn returned since the
                     \* last clear
    sinceStart,      \* agent of the last start_turn and the tokens passed
                     \* to record_token since, in call order
    _attribution,    \* per thread: threading.local().agent_id, None if unset
    call,            \* per thread: the frame of its create() call; base is
                     \* the store as it was when the call was made
    ctx,             \* per thread: the agent_context blocks it is inside,
                     \* outermost first, each with its local `previous`
    openai,          \* the attributes OpenAI and _OriginalOpenAI of the
                     \* openai module
    _patched,        \* instrumented_client._patched
    clients,         \* the clients constructed so far
    patchCall,       \* the last call of install / uninstall and the state
                     \* it found
    snapshot,        \* None, or the list a caller got from get_all_turns()
    singleton        \* the class attributes _instance and _lock, the
                     \* instance's _initialized and _data_lock, and every
                     \* thread's call of get_trace_collector()

storeVars == <<_turns, _turn_counter, _current_turn, _current_seq>>
threadVars == <<pc, l_text, l_emitted, result>>
ghostVars == <<issued, ended, sinceStart>>
createVars == <<_attribution, call>>
hostVars == <<ctx, openai, _patched, clients, patchCall, snapshot, singleton>>
vars == <<storeVars, now, threadVars, ghostVars, createVars, hostVars>>

\* openai.OpenAI as the library defines it, and the wrapper class
OriginalOpenAI == "openai.OpenAI"
InstrumentedOpenAI == "InstrumentedOpenAI"
\* the openai module before any patch: no _OriginalOpenAI attribute
UnpatchedModule == [OpenAI |-> OriginalOpenAI, _OriginalOpenAI |-> None]
\* no install / uninstall call made yet
NoPatchCall == [op |-> "none", before |-> [module |-> UnpatchedModule, patched |-> FALSE]]

\* no call of get_trace_collector() in progress or made
NoGet == [gpc |-> "idle", got |-> None, raised |-> None]
\* the class as the module defines it (lines 75-76): no instance, _lock free
NoSingleton ==
    [_instance |-> None, _initialized |-> None, _lock |-> None, _data_lock |-> None,
     get |-> [t \in Threads |-> NoGet]]
\* the class after the first TraceCollector() call has run __new__ and
\* __init__ to their ends: instance 1 with its first lock
TheSingleton ==
    [_instance |-> Some(1), _initialized |-> Some(TRUE), _lock |-> None,
     _data_lock |-> Some(1), get |-> [t \in Threads |-> NoGet]]

\* the fields TraceCollector.__init__ assigns (lines 92-101), every thread
\* outside any call and any agent_context block, the openai module not
\* patched
InitState ==
    /\ _turns = <<>>
    /\ _turn_counter = 0
    /\ IsNone(_current_turn)
    /\ _current_seq = 0
    /\ now = 0
    /\ pc = [t \in Threads |-> "idle"]
    /\ l_text = [t \in Threads |-> <<>>]
    /\ l_emitted = [t \in Threads |-> 0]
    /\ result = [t \in Threads |-> NoCall]
    /\ issued = <<>>
    /\ ended = <<>>
    /\ sinceStart = [agent |-> "unknown", tokens |-> <<>>]
    /\ _attribution = [t \in Threads |-> None]
    /\ call = [t \in Threads |-> NoCreate]
    /\ ctx = [t \in Threads |-> <<>>]
    /\ openai = UnpatchedModule
    /\ _patched = FALSE
    /\ clients = <<>>
    /\ patchCall = NoPatchCall
    /\ snapshot = None

\* the store constructed: the state after the first get_trace_collector()
Init == InitState /\ singleton = TheSingleton

\* time.time() advances between any two steps; reads never go backwards
Tick ==
    /\ now < MaxClock
    /\ now' = now + 1
    /\ UNCHANGED <<storeVars, threadVars, ghostVars, createVars, hostVars>>

\* ------------------------------------------------------- start_turn
\* the turn id start_turn assigns: the incremented counter
NextTurnId == _turn_counter + 1

\* mutant: the sequence counter is carried over from the previous turn
SeqAfterStartCarried == _current_seq
\* line 128: self._current_seq = 0
SeqAfterStart == 0

\* start_turn(agent_id), lines 113-130, under the lock
StartTurn(t, agent_id) ==
    /\ pc[t] = "idle"
    /\ _turn_counter < MaxTurns
    /\ _turn_counter' = NextTurnId
    /\ _current_turn' = Some(NewTurnTrace(NextTurnId, agent_id, now))
    /\ _current_seq' = SeqAfterStart
    /\ result' = [result EXCEPT ![t] = Returned("start_turn", Some(NextTurnId))]
    /\ issued' = Append(issued, NextTurnId)
    /\ sinceStart' = [agent |-> agent_id, tokens |-> <<>>]
    /\ UNCHANGED <<_turns, now, pc, l_text, l_emitted, ended>>

\* ------------------------------------------------------ record_token
\* mutant: record_token takes the lock without testing for a turn
NoTurnInProgressUntested == FALSE
\* the unlocked test of line 139
NoTurnInProgress == IsNone(_current_turn)

\* record_token(token): lines 139-140, read without the lock
RecordTokenCheck(t, token) ==
    /\ pc[t] = "idle"
    /\ Len(sinceStart.tokens) < MaxTokens
    /\ sinceStart' = [sinceStart EXCEPT !.tokens = Append(@, token)]
    /\ IF NoTurnInProgress
         THEN /\ result' = [result EXCEPT ![t] = Returned("record_token", None)]
              /\ UNCHANGED <<pc, l_text>>
         ELSE /\ result' = [result EXCEPT ![t] = Running("record_token")]
              /\ pc' = [pc EXCEPT ![t] = "rt_time"]
              /\ l_text' = [l_text EXCEPT ![t] = token]
    /\ UNCHANGED <<storeVars, now, l_emitted, issued, ended>>

\* line 142: t_emitted = int(time.time() * 1000), still without the lock
RecordTokenTime(t) ==
    /\ pc[t] = "rt_time"
    /\ l_emitted' = [l_emitted EXCEPT ![t] = now]
    /\ pc' = [pc EXCEPT ![t] = "rt_lock"]
    /\ UNCHANGED <<storeVars, now, l_text, result, ghostVars>>
    /\ UNCHANGED <<createVars, hostVars>>

\* mutant: the sequence counter is not advanced
SeqAfterRecordStuck == _current_seq
\* line 151: self._current_seq += 1
SeqAfterRecord == _current_seq + 1

\* lines 144-151: the lock is taken and self._current_turn is read again.
\* When it is None, `.token_emissions` raises AttributeError, the with
\* statement releases the lock and _current_seq is not incremented.
RecordTokenBody(t) ==
    /\ pc[t] = "rt_lock"
    /\ IF IsNone(_current_turn)
         THEN /\ result' = [result EXCEPT ![t] = Raised("record_token")]
              /\ UNCHANGED <<_current_turn, _current_seq>>
         ELSE /\ _current_turn' =
                   Some([Val(_current_turn) EXCEPT !.token_emissions =
                           Append(@, TokenEmission(l_text[t], l_emitted[t],
                                                   _current_seq))])
              /\ _current_seq' = SeqAfterRecord
              /\ result' = [result EXCEPT ![t] = Returned("record_token", None)]
    /\ pc' = [pc EXCEPT ![t] = "idle"]
    /\ l_text' = [l_text EXCEPT ![t] = <<>>]
    /\ l_emitted' = [l_emitted EXCEPT ![t] = 0]
    /\ UNCHANGED <<_turns, _turn_counter, now, ghostVars>>
    /\ UNCHANGED <<createVars, hostVars>>

\* ---------------------------------------------------------- end_turn
\* mutant: the subtraction of line 171 the other way round
FinalizedDurationReversed(turn, content, t_end) ==
    [turn EXCEPT !.content = content,
                 !.t_end_ms = t_end,
                 !.duration_ms = turn.t_start_ms - t_end]
\* the finalized record of lines 167-171
Finalized(turn, content, t_end) ==
    [turn EXCEPT !.content = content,
                 !.t_end_ms = t_end,
                 !.duration_ms = t_end - turn.t_start_ms]

\* mutant: no test for a turn, so None.content raises AttributeError
EndTurnWithoutTurnRaises == Raised("end_turn")
\* lines 164-165: no turn in progress, return None
EndTurnWithoutTurn == Returned("end_turn", None)

\* mutant: the finalized turn stays in the slot
SlotAfterEndTurnKept == _current_turn
\* line 175: self._current_turn = None
SlotAfterEndTurn == None

\* end_turn(content), lines 163-177, under the lock; the TurnTrace returned
\* is the object appended to _turns
EndTurn(t, content) ==
    /\ pc[t] = "idle"
    /\ IF IsNone(_current_turn)
         THEN /\ result' = [result EXCEPT ![t] = EndTurnWithoutTurn]
              /\ UNCHANGED <<_turns, _current_turn, ended>>
         ELSE /\ _turns' = Append(_turns,
                     Finalized(Val(_current_turn), content, now))
              /\ _current_turn' = SlotAfterEndTurn
              /\ result' = [result EXCEPT ![t] = Returned("end_turn",
                     Some(Val(_current_turn).turn_id))]
              /\ ended' = Append(ended, Val(_current_turn).turn_id)
    /\ l_text' = [l_text EXCEPT ![t] = content]
    /\ UNCHANGED <<_turn_counter, _current_seq, now, pc, l_emitted,
                   issued, sinceStart>>

\* ------------------------------------------------------------- clear
\* mutant: clear() keeps the turn counter
CounterAfterClearKept == _turn_counter
\* line 203: self._turn_counter = 0
CounterAfterClear == 0

\* mutant: clear() leaves the turn in progress in its slot
SlotAfterClearKept == _current_turn
\* line 204: self._current_turn = None
SlotAfterClear == None

\* clear(), lines 201-205, under the lock
Clear(t) ==
    /\ pc[t] = "idle"
    /\ _turns' = <<>>
    /\ _turn_counter' = CounterAfterClear
    /\ _current_turn' = SlotAfterClear
    /\ _current_seq' = 0
    /\ result' = [result EXCEPT ![t] = Returned("clear", None)]
    /\ issued' = <<>>
    /\ ended' = <<>>
    /\ UNCHANGED <<now, pc, l_text, l_emitted, sinceStart>>

\* ------------------------------------------------------- the getters
\* get_turn_count(), lines 207-210
get_turn_count == Len(_turns)
\* get_all_turns_as_dicts(), lines 189-197: every dict and every emission
\* dict is built anew, so the result shares nothing with the store
get_all_turns_as_dicts == _turns

\* ------------------------------------------------- callers of the store
\* a thread outside create() calls the store directly
Outside(t) == call[t].cpc = "none"
Direct(t) ==
    /\ Outside(t)
    /\ call' = [call EXCEPT ![t] = NoCreate]
    /\ UNCHANGED <<_attribution, hostVars>>

\* under concurrent use every thread passes its own agent and texts
CallStartTurn(t) == StartTurn(t, ThreadAgent(t)) /\ Direct(t)
CallRecordToken(t) == RecordTokenCheck(t, ThreadToken(t)) /\ Direct(t)
CallEndTurn(t) == EndTurn(t, ThreadContent(t)) /\ Direct(t)
CallClear(t) == Clear(t) /\ Direct(t)

\* any thread calls any store operation at any time
Next ==
    \/ Tick
    \/ \E t \in Threads :
         \/ CallStartTurn(t)
         \/ CallRecordToken(t)
         \/ RecordTokenTime(t)
         \/ RecordTokenBody(t)
         \/ CallEndTurn(t)
         \/ CallClear(t)

Spec == Init /\ [][Next]_vars

\* ---------------------------------------- sequential use of the store
\* one thread, any agent and any text
SeqStartTurn == \E a \in Agents : StartTurn(MainThread, a) /\ Direct(MainThread)
SeqRecordToken == \E tok \in TokenTexts : RecordTokenCheck(MainThread, tok) /\ Direct(MainThread)
SeqEndTurn == \E c \in ContentTexts : EndTurn(MainThread, c) /\ Direct(MainThread)
SeqClear == Clear(MainThread) /\ Direct(MainThread)

NextSeq ==
    \/ Tick
    \/ SeqStartTurn
    \/ SeqRecordToken
    \/ RecordTokenTime(MainThread)
    \/ RecordTokenBody(MainThread)
    \/ SeqEndTurn
    \/ SeqClear

SpecSeq == Init /\ [][NextSeq]_vars

\* ---------------------------------------------------- attribution
\* mutant: getattr without the default, read as the text of None
AgentIdWithoutDefault(t) ==
    IF IsNone(_attribution[t]) THEN "None" ELSE Val(_attribution[t])
\* get_current_agent_id(): getattr(_attribution, 'agent_id', 'unknown')
get_current_agent_id(t) ==
    IF IsNone(_attribution[t]) THEN "unknown" ELSE Val(_attribution[t])

\* set_current_agent_id(agent_id)
SetCurrentAgentId(t) ==
    /\ Outside(t)
    /\ pc[t] = "idle"
    /\ \E a \in Agents : _attribution' = [_attribution EXCEPT ![t] = Some(a)]
    /\ UNCHANGED <<storeVars, now, threadVars, ghostVars, call, hostVars>>

\* clear_current_agent_id(): the attribute is set to 'unknown'
ClearCurrentAgentId(t) ==
    /\ pc[t] = "idle"
    /\ _attribution' = [_attribution EXCEPT ![t] = Some("unknown")]
    /\ UNCHANGED <<storeVars, now, threadVars, ghostVars, call, hostVars>>

\* deepest nesting of agent_context blocks
MaxDepth == 2

\* the frame of an agent_context block: its local `previous` and its
\* argument
ContextFrame(previous, agent_id) == [previous |-> previous, agent_id |-> agent_id]

\* agent_context(agent_id) up to the yield, lines 66-69
EnterContext(t, agent_id) ==
    /\ Outside(t)
    /\ pc[t] = "idle"
    /\ Len(ctx[t]) < MaxDepth
    /\ ctx' = [ctx EXCEPT ![t] =
                 Append(@, ContextFrame(get_current_agent_id(t), agent_id))]
    /\ _attribution' = [_attribution EXCEPT ![t] = Some(agent_id)]
    /\ UNCHANGED <<storeVars, now, threadVars, ghostVars, call>>
    /\ UNCHANGED <<openai, _patched, clients, patchCall, snapshot, singleton>>

\* mutant: the block resets the identifier instead of restoring it
RestoredOnExitUnknown(frame) == "unknown"
\* line 72: set_current_agent_id(previous)
RestoredOnExit(frame) == frame.previous

\* the innermost block ends, by running to its end ("returned") or by an
\* exception of its body ("raised"), which the generator receives at the
\* yield; either way the finally clause of lines 71-72 runs, and the
\* exception goes on to the caller
ExitContext(t, how) ==
    /\ Outside(t)
    /\ pc[t] = "idle"
    /\ ctx[t] # <<>>
    /\ ctx' = [ctx EXCEPT ![t] = SubSeq(@, 1, Len(@) - 1)]
    /\ _attribution' = [_attribution EXCEPT ![t] =
                          Some(RestoredOnExit(ctx[t][Len(ctx[t])]))]
    /\ result' = [result EXCEPT ![t] =
                    IF how = "raised" THEN Raised("agent_context")
                    ELSE Returned("agent_context", None)]
    /\ UNCHANGED <<storeVars, now, pc, l_text, l_emitted, ghostVars, call>>
    /\ UNCHANGED <<openai, _patched, clients, patchCall, snapshot, singleton>>

\* every thread sets and clears its identifier and enters and leaves
\* agent_context blocks
NextAttribution ==
    \E t \in Threads :
      \/ SetCurrentAgentId(t)
      \/ ClearCurrentAgentId(t)
      \/ \E a \in ThreadAgents(t) : EnterContext(t, a)
      \/ ExitContext(t, "returned")
      \/ ExitContext(t, "raised")

SpecAttribution == Init /\ [][NextAttribution]_vars

\* ------------------------------------------------------------ create
\* mutant: every call is instrumented, whatever the caller asked for
WantsStreamIgnored(kw) == FALSE
\* kwargs.get('stream', False)
WantsStream(kw) == kw.stream = "True"

\* kwargs_streaming of lines 75-81
StreamingKwargs(kw) ==
    [kw EXCEPT !.stream = "True",
               !.stream_options = IF @ = "absent" THEN "include_usage" ELSE @]

\* mutant: kwargs_streaming = kwargs, so the writes of lines 76-81 land in
\* kwargs
KwargsAfterCopyAliased(kw) == StreamingKwargs(kw)
\* line 75: dict(kwargs) is a new dictionary; kwargs is left as it is by
\* the writes to kwargs_streaming
KwargsAfterCopy(kw) == kw

\* mutant: `delta.content is not None` instead of the truth test
HasContentNotNone(chunk) ==
    /\ ~IsNone(chunk.choice)
    /\ ~IsNone(Val(chunk.choice).content)
\* the test of lines 126-132: the chunk has a choice whose delta carries
\* non-empty content
HasContent(chunk) ==
    /\ ~IsNone(chunk.choice)
    /\ ~IsNone(Val(chunk.choice).content)
    /\ Val(Val(chunk.choice).content) # <<>>
DeltaContent(chunk) == Val(Val(chunk.choice).content)

\* the test of line 138
HasFinishReason(chunk) ==
    /\ ~IsNone(chunk.choice)
    /\ ~IsNone(Val(chunk.choice).finish_reason)

\* ''.join(content_parts)
RECURSIVE Join(_)
Join(parts) ==
    IF parts = <<>> THEN <<>> ELSE Head(parts) \o Join(Tail(parts))

\* len(content.split()): the number of maximal runs of non-blank characters
IsSpace(ch) == ch = " "
RECURSIVE WordCount(_)
WordCount(text) ==
    IF text = <<>> THEN 0
    ELSE (IF ~IsSpace(Head(text))
             /\ (Len(text) = 1 \/ IsSpace(text[2])) THEN 1 ELSE 0)
         + WordCount(Tail(text))

\* int(time.time()), in seconds
NowSeconds == now \div 1000

\* mutant: getattr without the default values of lines 203-205
BuildCompletionResponseNoDefaults(first_chunk, content, finish_reason, usage) ==
    LET meta == IF IsNone(first_chunk) THEN None ELSE Val(first_chunk).meta
    IN [kind |-> "ChatCompletion",
        id |-> IF IsNone(meta) THEN "None" ELSE Val(meta).id,
        model |-> IF IsNone(meta) THEN "None" ELSE Val(meta).model,
        created |-> IF IsNone(meta) THEN 0 ELSE Val(meta).created,
        role |-> "assistant",
        content |-> content,
        finish_reason |-> IF IsNone(finish_reason) THEN "stop"
                          ELSE Val(finish_reason),
        usage |-> IF IsNone(usage)
                    THEN [prompt_tokens |-> 0,
                          completion_tokens |-> WordCount(content),
                          total_tokens |-> 0 + WordCount(content)]
                    ELSE Val(usage)]
\* _build_completion_response(first_chunk, content, finish_reason, usage),
\* lines 177-217
BuildCompletionResponse(first_chunk, content, finish_reason, usage) ==
    LET meta == IF IsNone(first_chunk) THEN None ELSE Val(first_chunk).meta
    IN [kind |-> "ChatCompletion",
        id |-> IF IsNone(meta) THEN "chatcmpl-instrumented" ELSE Val(meta).id,
        model |-> IF IsNone(meta) THEN "unknown" ELSE Val(meta).model,
        created |-> IF IsNone(meta) THEN NowSeconds ELSE Val(meta).created,
        role |-> "assistant",
        content |-> content,
        finish_reason |-> IF IsNone(finish_reason) THEN "stop"
                          ELSE Val(finish_reason),
        usage |-> IF IsNone(usage)
                    THEN [prompt_tokens |-> 0,
                          completion_tokens |-> WordCount(content),
                          total_tokens |-> 0 + WordCount(content)]
                    ELSE Val(usage)]

\* the store as create() finds it
StoreNow ==
    [turns |-> _turns, turn_counter |-> _turn_counter,
     current_turn |-> _current_turn, current_seq |-> _current_seq]

\* lines 64-65: the caller asked for streaming; the call goes to the
\* transport as it is and its outcome is the caller's
CreatePassThrough(t) ==
    /\ Outside(t)
    /\ pc[t] = "idle"
    /\ \E kw \in KwargsSet, out \in {"ok"} \cup Errors :
         /\ WantsStream(kw)
         /\ call' = [call EXCEPT ![t] =
              [NoCreate EXCEPT
                 !.request = kw,
                 !.kwargs = kw,
                 !.base = StoreNow,
                 !.requests = <<TransportCall(kw,
                     IF out = "ok" THEN Some(TransportStream) ELSE None,
                     IF out = "ok" THEN None ELSE Some(out))>>,
                 !.status = IF out = "ok" THEN "returned" ELSE "raised",
                 !.response = IF out = "ok" THEN Some(TransportStream) ELSE None,
                 !.error = IF out = "ok" THEN None ELSE Some(out)]]
    /\ UNCHANGED <<storeVars, now, threadVars, ghostVars, _attribution, hostVars>>

\* lines 68-72: read the attribution, open the turn
CreateBegin(t) ==
    /\ Outside(t)
    /\ \E kw \in KwargsSet :
         /\ ~WantsStream(kw)
         /\ call' = [call EXCEPT ![t] =
              [NoCreate EXCEPT !.cpc = "stream_call", !.request = kw,
                               !.kwargs = kw,
                               !.base = StoreNow, !.status = "running"]]
    /\ StartTurn(t, get_current_agent_id(t))
    /\ UNCHANGED <<_attribution, hostVars>>

\* lines 75-85: the forced-streaming call, which returns a stream or raises
CreateStreamCall(t) ==
    /\ call[t].cpc = "stream_call"
    /\ pc[t] = "idle"
    /\ \E out \in {"ok"} \cup Errors :
         call' = [call EXCEPT ![t] =
           [@ EXCEPT
              !.kwargs = KwargsAfterCopy(@),
              !.requests = Append(@, TransportCall(StreamingKwargs(call[t].kwargs),
                  IF out = "ok" THEN Some(TransportStream) ELSE None,
                  IF out = "ok" THEN None ELSE Some(out))),
              !.cpc = IF out = "ok" THEN "iterate" ELSE "except",
              !.caught = IF out = "ok" THEN None ELSE Some(out),
              !.failed_at = IF out = "ok" THEN "none" ELSE "stream_call"]]
    /\ UNCHANGED <<storeVars, now, threadVars, ghostVars, _attribution, hostVars>>

\* lines 118-143: one iteration of `for chunk in stream`
CreateNextChunk(t) ==
    /\ call[t].cpc = "iterate"
    /\ pc[t] = "idle"
    /\ result[t].status # "raised"
    /\ Len(call[t].chunks) < MaxChunks
    /\ \E chunk \in Chunks :
         /\ call' = [call EXCEPT ![t] =
              [@ EXCEPT
                 !.chunks = Append(@, chunk),
                 !.first_chunk = IF IsNone(@) THEN Some(chunk) ELSE @,
                 !.content_parts = IF HasContent(chunk)
                                     THEN Append(@, DeltaContent(chunk)) ELSE @,
                 !.finish_reason = IF HasFinishReason(chunk)
                                     THEN Val(chunk.choice).finish_reason ELSE @,
                 !.usage = IF ~IsNone(chunk.usage) THEN chunk.usage ELSE @]]
         /\ IF HasContent(chunk)
              THEN RecordTokenCheck(t, DeltaContent(chunk))
              ELSE UNCHANGED <<storeVars, now, threadVars, ghostVars>>
    /\ UNCHANGED <<_attribution, hostVars>>

\* the stream is exhausted: lines 146-149
CreateStreamEnd(t) ==
    /\ call[t].cpc = "iterate"
    /\ result[t].status # "raised"
    /\ pc[t] = "idle"
    /\ EndTurn(t, Join(call[t].content_parts))
    /\ call' = [call EXCEPT ![t].cpc = "build"]
    /\ UNCHANGED <<_attribution, hostVars>>

\* the stream raises instead of yielding the next chunk
CreateStreamRaise(t) ==
    /\ call[t].cpc = "iterate"
    /\ pc[t] = "idle"
    /\ result[t].status # "raised"
    /\ \E e \in Errors :
         call' = [call EXCEPT ![t] =
           [@ EXCEPT !.cpc = "except", !.caught = Some(e),
                     !.failed_at = "iteration"]]
    /\ UNCHANGED <<storeVars, now, threadVars, ghostVars, _attribution, hostVars>>

\* lines 152-157 and 90: the response is built and returned
CreateBuild(t) ==
    /\ call[t].cpc = "build"
    /\ pc[t] = "idle"
    /\ call' = [call EXCEPT ![t] =
         [@ EXCEPT
            !.cpc = "none",
            !.status = "returned",
            !.response = Some(BuildCompletionResponse(call[t].first_chunk,
                              Join(call[t].content_parts),
                              call[t].finish_reason, call[t].usage))]]
    /\ UNCHANGED <<storeVars, now, threadVars, ghostVars, _attribution, hostVars>>

\* lines 173-175: the imports of _build_completion_response raise
CreateBuildRaise(t) ==
    /\ call[t].cpc = "build"
    /\ pc[t] = "idle"
    /\ call' = [call EXCEPT ![t] =
         [@ EXCEPT !.cpc = "except", !.caught = Some("ImportError"),
                   !.failed_at = "build"]]
    /\ UNCHANGED <<storeVars, now, threadVars, ghostVars, _attribution, hostVars>>

\* mutant: the turn is closed with the content received so far
ExceptContentPartial(t) == Join(call[t].content_parts)
\* line 95: the content the failed turn is closed with, ""
ExceptContent(t) == <<>>

\* mutant: the except clause goes to the fallback call without end_turn
CreateExceptLeavesTurn(t) ==
    /\ call[t].cpc = "except"
    /\ pc[t] = "idle"
    /\ call' = [call EXCEPT ![t].cpc = "fallback"]
    /\ UNCHANGED <<storeVars, now, threadVars, ghostVars, _attribution, hostVars>>
\* line 95: except Exception: collector.end_turn("")
CreateExcept(t) ==
    /\ call[t].cpc = "except"
    /\ pc[t] = "idle"
    /\ EndTurn(t, ExceptContent(t))
    /\ call' = [call EXCEPT ![t].cpc = "fallback"]
    /\ UNCHANGED <<_attribution, hostVars>>

\* mutant: `raise e`, the error caught at line 92 is raised again
ErrorLeavingCreateCaught(t, e) == call[t].caught
\* line 98: the error of the fallback call leaves create() as it is
ErrorLeavingCreate(t, e) == Some(e)

\* mutant: the fallback response is given an estimated usage record
FallbackResponseEstimated(returned) ==
    [returned EXCEPT !.usage = [prompt_tokens |-> 0,
                                completion_tokens |-> WordCount(returned.content),
                                total_tokens |-> WordCount(returned.content)]]
\* line 98: what the fallback call returned is returned as it is
FallbackResponse(returned) == returned

\* line 98: return self._original.create(**kwargs)
CreateFallback(t) ==
    /\ call[t].cpc = "fallback"
    /\ pc[t] = "idle"
    /\ \E out \in {"ok"} \cup Errors :
         call' = [call EXCEPT ![t] =
           [@ EXCEPT
              !.requests = Append(@, TransportCall(call[t].kwargs,
                  IF out = "ok" THEN Some(TransportResponse) ELSE None,
                  IF out = "ok" THEN None ELSE Some(out))),
              !.cpc = "none",
              !.status = IF out = "ok" THEN "returned" ELSE "raised",
              !.response = IF out = "ok"
                             THEN Some(FallbackResponse(TransportResponse))
                             ELSE None,
              !.error = IF out = "ok" THEN None
                        ELSE ErrorLeavingCreate(t, out)]]
    /\ UNCHANGED <<storeVars, now, threadVars, ghostVars, _attribution, hostVars>>

\* one thread calls create(), sets its agent and clears the store, all
\* within one millisecond of the clock
NextCreate ==
    \/ SetCurrentAgentId(MainThread)
    \/ CreatePassThrough(MainThread)
    \/ CreateBegin(MainThread)
    \/ CreateStreamCall(MainThread)
    \/ CreateNextChunk(MainThread)
    \/ CreateStreamEnd(MainThread)
    \/ CreateStreamRaise(MainThread)
    \/ CreateBuild(MainThread)
    \/ CreateBuildRaise(MainThread)
    \/ CreateExcept(MainThread)
    \/ CreateFallback(MainThread)
    \/ RecordTokenTime(MainThread)
    \/ RecordTokenBody(MainThread)
    \/ SeqClear

SpecCreate == Init /\ [][NextCreate]_vars

\* ------------------------------- attribution changing during create()
\* code that runs on the thread while its create() call is in flight (the
\* transport, the iterator of the stream) calls set_current_agent_id or
\* clear_current_agent_id
AttributionChanges(t) ==
    /\ ~Outside(t)
    /\ pc[t] = "idle"
    /\ \E a \in Agents \cup {"unknown"} :
         _attribution' = [_attribution EXCEPT ![t] = Some(a)]
    /\ UNCHANGED <<storeVars, now, threadVars, ghostVars, call, hostVars>>

\* the one chunk the streams of SpecInFlight yield: a content fragment
ContentChunk ==
    Chunk(Some(ChunkMeta), Some([content |-> Some(<<"a">>), finish_reason |-> None]), None)

\* create() calls without stream arguments, on streams of content chunks,
\* while the thread's identifier is set before and changed during the call
NextInFlight ==
    \/ SetCurrentAgentId(MainThread)
    \/ AttributionChanges(MainThread)
    \/ CreateBegin(MainThread) /\ call'[MainThread].kwargs = NoKwargs
    \/ CreateStreamCall(MainThread)
    \/ /\ CreateNextChunk(MainThread)
       /\ call'[MainThread].chunks[Len(call'[MainThread].chunks)] = ContentChunk
    \/ CreateStreamEnd(MainThread)
    \/ CreateStreamRaise(MainThread)
    \/ CreateBuild(MainThread)
    \/ CreateBuildRaise(MainThread)
    \/ CreateExcept(MainThread)
    \/ CreateFallback(MainThread)
    \/ RecordTokenTime(MainThread)
    \/ RecordTokenBody(MainThread)
    \/ SeqClear

SpecInFlight == Init /\ [][NextInFlight]_vars

\* ---------------------------------------- streams without metadata
\* time.time() is in seconds and int(time.time() * 1000) in milliseconds
MillisPerSecond == 1000

\* a second passes on the clock
TickSecond ==
    /\ now + MillisPerSecond <= MillisPerSecond * MaxClock
    /\ now' = now + MillisPerSecond
    /\ UNCHANGED <<storeVars, threadVars, ghostVars, createVars, hostVars>>

\* the chunks of a transport that leaves the optional attributes out: a
\* chunk with nothing in it, a content fragment without id, model and
\* created, a closing chunk that reports usage, and a complete chunk
MetadataChunks ==
    {Chunk(None, None, None),
     Chunk(None, Some([content |-> Some(<<"a">>), finish_reason |-> None]), None),
     Chunk(Some(ChunkMeta), None, Some(ChunkUsage)),
     Chunk(Some(ChunkMeta), Some([content |-> Some(<<" ", "b">>),
                                  finish_reason |-> Some("length")]), None)}

\* create() calls without stream arguments on such streams, the empty
\* stream among them, while the clock goes from one second to the next
NextMetadata ==
    \/ TickSecond
    \/ CreateBegin(MainThread) /\ call'[MainThread].kwargs = NoKwargs
    \/ CreateStreamCall(MainThread)
    \/ /\ CreateNextChunk(MainThread)
       /\ call'[MainThread].chunks[Len(call'[MainThread].chunks)] \in MetadataChunks
    \/ CreateStreamEnd(MainThread)
    \/ CreateStreamRaise(MainThread)
    \/ CreateBuild(MainThread)
    \/ CreateBuildRaise(MainThread)
    \/ CreateExcept(MainThread)
    \/ CreateFallback(MainThread)
    \/ RecordTokenTime(MainThread)
    \/ RecordTokenBody(MainThread)
    \/ SeqClear

SpecMetadata == Init /\ [][NextMetadata]_vars

\* ------------------------- a transport without the include-usage option
\* the request carries the option create() injected at lines 80-81
OptionInjected(request) == request.kwargs.stream_options = "include_usage"

\* create() calls on a transport that rejects every request carrying the
\* injected option and serves the others (a caller's own stream_options
\* among them) or fails them for reasons of its own
NextUnsupported ==
    \/ CreateBegin(MainThread)
    \/ /\ CreateStreamCall(MainThread)
       /\ OptionInjected(call'[MainThread].requests[1])
             => call'[MainThread].requests[1].raised = Some("APIError")
    \/ /\ CreateNextChunk(MainThread)
       /\ call'[MainThread].chunks[Len(call'[MainThread].chunks)]
             \in {ContentChunk, Chunk(None, None, None)}
    \/ CreateStreamEnd(MainThread)
    \/ CreateStreamRaise(MainThread)
    \/ CreateBuild(MainThread)
    \/ CreateBuildRaise(MainThread)
    \/ CreateExcept(MainThread)
    \/ CreateFallback(MainThread)
    \/ RecordTokenTime(MainThread)
    \/ RecordTokenBody(MainThread)
    \/ SeqClear

SpecUnsupported == Init /\ [][NextUnsupported]_vars

\* ------------------------------------- create() calls that run to their end
\* the steps of a create() call in flight on thread t: the transport
\* answers or raises, the stream yields a chunk, raises or ends (it has at
\* most MaxChunks chunks), the store takes the token
CreateRuns(t) ==
    \/ CreateStreamCall(t)
    \/ /\ CreateNextChunk(t)
       /\ call'[t].chunks[Len(call'[t].chunks)] \in {ContentChunk, Chunk(None, None, None)}
    \/ CreateStreamEnd(t)
    \/ CreateStreamRaise(t)
    \/ CreateBuild(t)
    \/ CreateBuildRaise(t)
    \/ CreateExcept(t)
    \/ CreateFallback(t)
    \/ RecordTokenTime(t)
    \/ RecordTokenBody(t)

\* one thread makes create() calls, one after the other, and clears the
\* store between them
NextFinite ==
    \/ CreateBegin(MainThread)
    \/ CreateRuns(MainThread)
    \/ SeqClear

\* the thread that called create() keeps running, and every transport call
\* and every read of the stream comes back
SpecFinite == Init /\ [][NextFinite]_vars /\ WF_vars(CreateRuns(MainThread))

\* ------------------------------------------------ get_trace_collector
\* the module imported and no TraceCollector() call made yet
InitImport == InitState /\ singleton = NoSingleton

\* thread t's call moves to position gpc
GetAt(t, gpc) == [singleton EXCEPT !.get[t].gpc = gpc]
\* what a step of TraceCollector() leaves alone besides the store
GetFrame ==
    UNCHANGED <<now, threadVars, ghostVars, createVars,
                ctx, openai, _patched, clients, patchCall, snapshot>>

\* line 216: get_trace_collector() calls TraceCollector()
GetTraceCollector(t) ==
    /\ singleton.get[t].gpc = "idle"
    /\ singleton' = [singleton EXCEPT !.get[t].gpc = "new_test",
                                      !.get[t].raised = None]
    /\ GetFrame /\ UNCHANGED storeVars

\* line 80: if cls._instance is None, read without the lock
NewTest(t) ==
    /\ singleton.get[t].gpc = "new_test"
    /\ singleton' = GetAt(t, IF singleton._instance = None
                               THEN "new_acquire" ELSE "init_test")
    /\ GetFrame /\ UNCHANGED storeVars

\* line 81: with cls._lock
NewAcquire(t) ==
    /\ singleton.get[t].gpc = "new_acquire"
    /\ singleton._lock = None
    /\ singleton' = [singleton EXCEPT !.get[t].gpc = "new_retest",
                                      !._lock = Some(t)]
    /\ GetFrame /\ UNCHANGED storeVars

\* line 82: the test again, under the lock; the lock is released when the
\* instance is there
NewRetest(t) ==
    /\ singleton.get[t].gpc = "new_retest"
    /\ singleton' =
         IF singleton._instance = None THEN GetAt(t, "new_create")
         ELSE [singleton EXCEPT !.get[t].gpc = "init_test", !._lock = None]
    /\ GetFrame /\ UNCHANGED storeVars

\* line 83: cls._instance = super().__new__(cls), an object without
\* attributes
NewCreate(t) ==
    /\ singleton.get[t].gpc = "new_create"
    /\ singleton' = [singleton EXCEPT
                       !.get[t].gpc = "new_flag",
                       !._instance = IF @ = None THEN Some(1) ELSE Some(Val(@) + 1),
                       !._initialized = None,
                       !._data_lock = None]
    /\ GetFrame /\ UNCHANGED storeVars

\* line 84: cls._instance._initialized = False, and the end of the with
\* block
NewFlag(t) ==
    /\ singleton.get[t].gpc = "new_flag"
    /\ singleton' = [singleton EXCEPT !.get[t].gpc = "init_test",
                                      !._initialized = Some(FALSE),
                                      !._lock = None]
    /\ GetFrame /\ UNCHANGED storeVars

\* lines 89-90: if self._initialized: return, read without any lock; the
\* attribute is missing between lines 83 and 84
InitTest(t) ==
    /\ singleton.get[t].gpc = "init_test"
    /\ singleton' =
         IF singleton._initialized = None
           THEN [singleton EXCEPT !.get[t].gpc = "idle",
                                  !.get[t].raised = Some("AttributeError")]
         ELSE IF Val(singleton._initialized)
           THEN [singleton EXCEPT !.get[t].gpc = "idle",
                                  !.get[t].got = singleton._instance]
         ELSE GetAt(t, "init_data_lock")
    /\ GetFrame /\ UNCHANGED storeVars

\* line 92: self._data_lock = threading.Lock(), a new lock
InitDataLock(t) ==
    /\ singleton.get[t].gpc = "init_data_lock"
    /\ singleton' = [singleton EXCEPT
                       !.get[t].gpc = "init_turns",
                       !._data_lock = IF @ = None THEN Some(1) ELSE Some(Val(@) + 1)]
    /\ GetFrame /\ UNCHANGED storeVars

\* line 93: self._turns = []
InitTurns(t) ==
    /\ singleton.get[t].gpc = "init_turns"
    /\ singleton' = GetAt(t, "init_turn_counter")
    /\ _turns' = <<>>
    /\ GetFrame /\ UNCHANGED <<_turn_counter, _current_turn, _current_seq>>

\* line 94: self._turn_counter = 0
InitTurnCounter(t) ==
    /\ singleton.get[t].gpc = "init_turn_counter"
    /\ singleton' = GetAt(t, "init_current_turn")
    /\ _turn_counter' = 0
    /\ GetFrame /\ UNCHANGED <<_turns, _current_turn, _current_seq>>

\* line 98: self._current_turn = None
InitCurrentTurn(t) ==
    /\ singleton.get[t].gpc = "init_current_turn"
    /\ singleton' = GetAt(t, "init_current_seq")
    /\ _current_turn' = None
    /\ GetFrame /\ UNCHANGED <<_turns, _turn_counter, _current_seq>>

\* line 99: self._current_seq = 0
InitCurrentSeq(t) ==
    /\ singleton.get[t].gpc = "init_current_seq"
    /\ singleton' = GetAt(t, "init_done")
    /\ _current_seq' = 0
    /\ GetFrame /\ UNCHANGED <<_turns, _turn_counter, _current_turn>>

\* line 101: self._initialized = True, and the instance is returned
InitDone(t) ==
    /\ singleton.get[t].gpc = "init_done"
    /\ singleton' = [singleton EXCEPT !.get[t].gpc = "idle",
                                      !.get[t].got = singleton._instance,
                                      !._initialized = Some(TRUE)]
    /\ GetFrame /\ UNCHANGED storeVars

\* thread t holds the store and is not inside get_trace_collector()
Holds(t) == singleton.get[t].gpc = "idle" /\ singleton.get[t].got # None

\* a thread that holds the store starts a turn on it, or ends one
HolderStartTurn(t) ==
    /\ Holds(t)
    /\ StartTurn(t, ThreadAgent(t))
    /\ Direct(t)
HolderEndTurn(t) ==
    /\ Holds(t)
    /\ EndTurn(t, ThreadContent(t))
    /\ Direct(t)

\* the threads call get_trace_collector(), the first calls concurrently,
\* and use the store they got
NextSingleton ==
    \E t \in Threads :
      \/ GetTraceCollector(t)
      \/ NewTest(t)
      \/ NewAcquire(t)
      \/ NewRetest(t)
      \/ NewCreate(t)
      \/ NewFlag(t)
      \/ InitTest(t)
      \/ InitDataLock(t)
      \/ InitTurns(t)
      \/ InitTurnCounter(t)
      \/ InitCurrentTurn(t)
      \/ InitCurrentSeq(t)
      \/ InitDone(t)
      \/ HolderStartTurn(t)
      \/ HolderEndTurn(t)

SpecSingleton == InitImport /\ [][NextSingleton]_vars

\* ------------------------------------------------ install / uninstall
\* clients constructed
MaxClients == 3

\* what install and uninstall read and write: the openai module's two
\* attributes and the flag
PatchState == [module |-> openai, patched |-> _patched]

\* mutant: no `if _patched: return` and no hasattr test
InstallUnguarded(p) ==
    [module |-> [OpenAI |-> InstrumentedOpenAI,
                 _OriginalOpenAI |-> Some(p.module.OpenAI)],
     patched |-> TRUE]
\* install_openai_patch(), lines 293-307
install_openai_patch(p) ==
    IF p.patched THEN p
    ELSE [module |-> [OpenAI |-> InstrumentedOpenAI,
                      _OriginalOpenAI |->
                          IF p.module._OriginalOpenAI = None
                            THEN Some(p.module.OpenAI)
                            ELSE p.module._OriginalOpenAI],
          patched |-> TRUE]

\* mutant: only the flag is reset
UninstallFlagOnly(p) == [p EXCEPT !.patched = FALSE]
\* uninstall_openai_patch(), lines 316-326
uninstall_openai_patch(p) ==
    IF ~p.patched THEN p
    ELSE [module |-> [p.module EXCEPT !.OpenAI =
                         IF p.module._OriginalOpenAI # None
                           THEN Val(p.module._OriginalOpenAI) ELSE @],
          patched |-> FALSE]

\* is_patched(), line 331
is_patched == _patched

\* a call of install / uninstall and the state it found
PatchCall(op, before) == [op |-> op, before |-> before]

Install ==
    /\ openai' = install_openai_patch(PatchState).module
    /\ _patched' = install_openai_patch(PatchState).patched
    /\ patchCall' = PatchCall("install", PatchState)
    /\ UNCHANGED <<storeVars, now, threadVars, ghostVars, createVars>>
    /\ UNCHANGED <<ctx, clients, snapshot, singleton>>

Uninstall ==
    /\ openai' = uninstall_openai_patch(PatchState).module
    /\ _patched' = uninstall_openai_patch(PatchState).patched
    /\ patchCall' = PatchCall("uninstall", PatchState)
    /\ UNCHANGED <<storeVars, now, threadVars, ghostVars, createVars>>
    /\ UNCHANGED <<ctx, clients, snapshot, singleton>>

\* mutant: the wrapper builds its client from the entry point
OriginalClassEntryPoint(module) == module.OpenAI
\* line 259: getattr(openai, '_OriginalOpenAI', openai.OpenAI)
OriginalClass(module) ==
    IF module._OriginalOpenAI # None THEN Val(module._OriginalOpenAI)
    ELSE module.OpenAI

\* a constructed client: its class, the class of the client inside it
\* (None for a client of the library's own class), and the name it was
\* constructed through
Client(class, inner, via) == [class |-> class, _client |-> inner, via |-> via]
\* InstrumentedOpenAI.__init__, lines 250-263
NewInstrumentedOpenAI(via) ==
    Client(InstrumentedOpenAI, Some(OriginalClass(openai)), via)

\* openai.OpenAI(...): whatever class the entry point names is built
ConstructViaEntryPoint ==
    /\ Len(clients) < MaxClients
    /\ clients' = Append(clients,
          IF openai.OpenAI = InstrumentedOpenAI
            THEN NewInstrumentedOpenAI("openai.OpenAI")
            ELSE Client(openai.OpenAI, None, "openai.OpenAI"))
    /\ UNCHANGED <<storeVars, now, threadVars, ghostVars, createVars>>
    /\ UNCHANGED <<ctx, openai, _patched, patchCall, snapshot, singleton>>

\* InstrumentedOpenAI(...) called by its own name
ConstructInstrumented ==
    /\ Len(clients) < MaxClients
    /\ clients' = Append(clients, NewInstrumentedOpenAI("InstrumentedOpenAI"))
    /\ UNCHANGED <<storeVars, now, threadVars, ghostVars, createVars>>
    /\ UNCHANGED <<ctx, openai, _patched, patchCall, snapshot, singleton>>

\* install, uninstall and client constructions in any order
NextPatch ==
    \/ Install
    \/ Uninstall
    \/ ConstructViaEntryPoint
    \/ ConstructInstrumented

SpecPatch == Init /\ [][NextPatch]_vars

\* ------------------------------------------------------ get_all_turns
\* An entry of a list returned by get_all_turns(): the TurnTrace object it
\* refers to, and where the store's own list holds that same object (at: its
\* index in _turns; 0 when the store's list does not hold it).
SnapshotEntry(obj, at) == [obj |-> obj, at |-> at]
\* a TurnTrace the caller made itself
CallerTurn == NewTurnTrace(0, "caller", 0)
\* the TurnTrace values of a returned list
ObjectsOf(entries) == [i \in 1..Len(entries) |-> entries[i].obj]

\* get_all_turns(), lines 186-187: list(self._turns) is a new list of the
\* same TurnTrace objects
GetAllTurns(t) ==
    /\ Outside(t)
    /\ pc[t] = "idle"
    /\ snapshot' = Some([i \in 1..Len(_turns) |-> SnapshotEntry(_turns[i], i)])
    /\ UNCHANGED <<storeVars, now, threadVars, ghostVars, createVars>>
    /\ UNCHANGED <<ctx, openai, _patched, clients, patchCall, singleton>>

\* the caller appends a TurnTrace of its own to the list it got
SnapshotAppend ==
    /\ snapshot # None
    /\ Len(Val(snapshot)) <= MaxTurns
    /\ snapshot' = Some(Append(Val(snapshot), SnapshotEntry(CallerTurn, 0)))
    /\ UNCHANGED <<storeVars, now, threadVars, ghostVars, createVars>>
    /\ UNCHANGED <<ctx, openai, _patched, clients, patchCall, singleton>>

\* the caller removes the last entry of the list it got
SnapshotRemove ==
    /\ snapshot # None
    /\ Val(snapshot) # <<>>
    /\ snapshot' = Some(SubSeq(Val(snapshot), 1, Len(Val(snapshot)) - 1))
    /\ UNCHANGED <<storeVars, now, threadVars, ghostVars, createVars>>
    /\ UNCHANGED <<ctx, openai, _patched, clients, patchCall, singleton>>

\* the caller writes to the object entry i refers to; the object is the
\* one the store's list holds at entry.at, so the store sees the write
SnapshotWrite(i, obj) ==
    LET entry == Val(snapshot)[i] IN
    /\ snapshot' = Some([Val(snapshot) EXCEPT ![i].obj = obj])
    /\ _turns' = IF entry.at = 0 THEN _turns
                 ELSE [_turns EXCEPT ![entry.at] = obj]
    /\ UNCHANGED <<_turn_counter, _current_turn, _current_seq>>
    /\ UNCHANGED <<now, threadVars, ghostVars, createVars>>
    /\ UNCHANGED <<ctx, openai, _patched, clients, patchCall, singleton>>

\* turns[i].content = "x"
SnapshotSetContent(i) ==
    /\ snapshot # None
    /\ i \in 1..Len(Val(snapshot))
    /\ SnapshotWrite(i, [Val(snapshot)[i].obj EXCEPT !.content = <<"x">>])

\* turns[i].token_emissions.clear()
SnapshotClearEmissions(i) ==
    /\ snapshot # None
    /\ i \in 1..Len(Val(snapshot))
    /\ SnapshotWrite(i, [Val(snapshot)[i].obj EXCEPT !.token_emissions = <<>>])

\* clear() while a caller holds a list: self._turns.clear() empties the
\* store's list, the caller's list keeps its objects
SnapshotClear ==
    /\ Clear(MainThread)
    /\ Outside(MainThread)
    /\ snapshot' = IF snapshot = None THEN None
                   ELSE Some([i \in 1..Len(Val(snapshot)) |->
                                SnapshotEntry(Val(snapshot)[i].obj, 0)])
    /\ UNCHANGED createVars
    /\ UNCHANGED <<ctx, openai, _patched, clients, patchCall, singleton>>

\* one thread uses the store, takes lists from get_all_turns() and changes
\* them and the objects in them
NextSnapshot ==
    \/ CallStartTurn(MainThread)
    \/ CallRecordToken(MainThread)
    \/ RecordTokenTime(MainThread)
    \/ RecordTokenBody(MainThread)
    \/ CallEndTurn(MainThread)
    \/ SnapshotClear
    \/ GetAllTurns(MainThread)
    \/ SnapshotAppend
    \/ SnapshotRemove
    \/ \E i \in 1..(MaxTurns + 1) : SnapshotSetContent(i)
    \/ \E i \in 1..(MaxTurns + 1) : SnapshotClearEmissions(i)

SpecSnapshot == Init /\ [][NextSnapshot]_vars

\* =================================================================
\* Properties
\* =================================================================
\* a finished create() call and the path it took
Finished(t) == call[t].status \in {"returned", "raised"}
Instrumented(t) == call[t].kwargs.stream # "True"
LastTurn == _turns[Len(_turns)]

\* the non-empty content fragments of a chunk sequence, in arrival order
FragmentAt(chunk) ==
    IF chunk.choice = None THEN <<>>
    ELSE IF chunk.choice[1].content = None THEN <<>>
    ELSE IF Len(chunk.choice[1].content[1]) = 0 THEN <<>>
    ELSE <<chunk.choice[1].content[1]>>
RECURSIVE FragmentsOf(_)
FragmentsOf(cs) ==
    IF cs = <<>> THEN <<>>
    ELSE FragmentsOf(SubSeq(cs, 1, Len(cs) - 1)) \o FragmentAt(cs[Len(cs)])
\* texts concatenated left to right
RECURSIVE Concat(_)
Concat(texts) ==
    IF texts = <<>> THEN <<>>
    ELSE Concat(SubSeq(texts, 1, Len(texts) - 1)) \o texts[Len(texts)]

\* the emissions of a turn are numbered 0, 1, .., n-1 in list order
SeqInOrder(turn) ==
    \A i \in 1..Len(turn.token_emissions) : turn.token_emissions[i].seq = i - 1

\* C1: on the streaming path of create() (no error raised) the response's
\* content is the concatenation, in arrival order, of the non-empty content
\* fragments of the chunks; the store holds one emission per such fragment,
\* numbered 0..n-1 with the fragments as token texts; the finalized turn's
\* content is the response's content.
C1_StreamReconstruction ==
    \A t \in Threads :
      (call[t].status = "returned" /\ Instrumented(t) /\ call[t].failed_at = "none")
      => LET frs == FragmentsOf(call[t].chunks)
             resp == Val(call[t].response)
         IN /\ resp.content = Concat(frs)
            /\ Len(_turns) = Len(call[t].base.turns) + 1
            /\ _turns = Append(call[t].base.turns, LastTurn)
            /\ Len(LastTurn.token_emissions) = Len(frs)
            /\ SeqInOrder(LastTurn)
            /\ \A i \in 1..Len(frs) : LastTurn.token_emissions[i].token = frs[i]
            /\ LastTurn.content = resp.content

\* C1 witness: a stream of two chunks with different non-empty fragments was
\* reconstructed
C1_Witness ==
    /\ call[MainThread].status = "returned"
    /\ Instrumented(MainThread)
    /\ call[MainThread].failed_at = "none"
    /\ Len(FragmentsOf(call[MainThread].chunks)) = 2
    /\ FragmentsOf(call[MainThread].chunks)[1] # FragmentsOf(call[MainThread].chunks)[2]

\* the streaming call raised, or iterating the stream raised
StreamFailed(t) == call[t].failed_at \in {"stream_call", "iteration"}

\* C2: when the forced-streaming call raises or iterating the stream raises,
\* create() closes the open turn with empty content, makes one fresh
\* non-streaming call with the caller's arguments and hands its outcome to
\* the caller; exactly one turn is finalized for the call, with empty content.
C2_Fallback ==
    \A t \in Threads :
      (Finished(t) /\ Instrumented(t) /\ StreamFailed(t))
      => /\ Len(call[t].requests) = 2
         /\ call[t].requests[1].kwargs.stream = "True"
         /\ call[t].requests[2].kwargs = call[t].kwargs
         /\ call[t].requests[2].kwargs.stream # "True"
         /\ call[t].response = call[t].requests[2].returned
         /\ (call[t].status = "returned") = (call[t].requests[2].returned # None)
         /\ Len(_turns) = Len(call[t].base.turns) + 1
         /\ _turns = Append(call[t].base.turns, LastTurn)
         /\ LastTurn.content = <<>>
         /\ _current_turn = None

\* C2 witness: the stream raised after a fragment had been recorded, and the
\* fallback call's response was returned
C2_Witness ==
    /\ call[MainThread].status = "returned"
    /\ call[MainThread].failed_at = "iteration"
    /\ Len(call[MainThread].content_parts) >= 1
    /\ Len(LastTurn.token_emissions) >= 1
    /\ call[MainThread].response = Some(TransportResponse)

\* C3 as stated: create() (not asked to stream) raises only if the streaming
\* attempt and the fallback both failed, and the caller then observes the
\* original error, the one the streaming attempt raised.
C3_OriginalErrorPropagates ==
    \A t \in Threads :
      (call[t].status = "raised" /\ Instrumented(t))
      => /\ call[t].failed_at # "none"
         /\ call[t].requests[Len(call[t].requests)].raised # None
         /\ call[t].error = call[t].caught

\* C3 amended: create() (not asked to stream) raises only if the streaming
\* attempt (the streaming call, draining the stream or building the
\* response) and the fallback call both failed, and the caller then observes
\* the error the fallback call raised, unchanged.
C3_FallbackErrorPropagates ==
    \A t \in Threads :
      (call[t].status = "raised" /\ Instrumented(t))
      => /\ call[t].failed_at # "none"
         /\ call[t].caught # None
         /\ call[t].requests[Len(call[t].requests)].kwargs = call[t].kwargs
         /\ call[t].requests[Len(call[t].requests)].raised # None
         /\ call[t].error = call[t].requests[Len(call[t].requests)].raised

\* C3 witness: both calls failed, with different errors
C3_Witness ==
    /\ call[MainThread].status = "raised"
    /\ Instrumented(MainThread)
    /\ call[MainThread].caught = Some("APIError")
    /\ call[MainThread].error = Some("APITimeoutError")

\* C4: a create() call with stream=True goes to the transport with the
\* caller's arguments, its outcome is the transport's, and the store is as
\* it was before the call.
C4_PassThrough ==
    \A t \in Threads :
      (Finished(t) /\ call[t].kwargs.stream = "True")
      => /\ call[t].requests =
              <<TransportCall(call[t].kwargs, call[t].response, call[t].error)>>
         /\ (call[t].status = "returned") = (call[t].response # None)
         /\ (call[t].status = "raised") = (call[t].error # None)
         /\ StoreNow = call[t].base

\* C4 witness: a pass-through call returned the transport's stream while the
\* store held a finalized turn
C4_Witness ==
    /\ call[MainThread].status = "returned"
    /\ call[MainThread].kwargs.stream = "True"
    /\ call[MainThread].response = Some(TransportStream)
    /\ Len(_turns) >= 1

\* every turn the store holds
StoreTurns ==
    {_turns[i] : i \in 1..Len(_turns)}
    \cup (IF _current_turn = None THEN {} ELSE {_current_turn[1]})

NoDuplicates(seq) ==
    \A i, j \in 1..Len(seq) : i # j => seq[i] # seq[j]

\* C5: under any interleaving of start_turn, record_token, end_turn and
\* clear from several threads, no two start_turn calls between two clears
\* return the same turn_id, the seq values of every turn are 0..n-1 in list
\* order, and every end_turn that returned a turn left exactly one history
\* entry for it.
C5_ThreadSafety ==
    /\ NoDuplicates(issued)
    /\ \A turn \in StoreTurns : SeqInOrder(turn)
    /\ Len(_turns) = Len(ended)
    /\ \A i \in 1..Len(_turns) : _turns[i].turn_id = ended[i]
    /\ NoDuplicates(ended)

\* C5 witness: two turns were finalized and one holds tokens recorded by
\* both threads
C5_Witness ==
    /\ Len(_turns) = 2
    /\ \E i \in 1..2 :
         /\ Len(_turns[i].token_emissions) = 2
         /\ _turns[i].token_emissions[1].token # _turns[i].token_emissions[2].token

\* C6 as stated: record_token never raises, whatever end_turn or clear do
\* on another thread between its test and its append.
C6_RecordTokenNeverRaises ==
    \A t \in Threads : result[t] # Raised("record_token")

\* C7: the turn_ids returned by start_turn since the last clear are
\* 1, 2, 3, .. in call order.
C7_TurnIdsIncrease ==
    \A i \in 1..Len(issued) : issued[i] = i

\* C7 witness: a second start_turn overwrote an open turn and got id 2
C7_Witness ==
    /\ issued = <<1, 2>>
    /\ _turns = <<>>
    /\ ended = <<>>
    /\ _current_turn # None
    /\ Val(_current_turn).turn_id = 2

\* C8: in sequential use, the turn end_turn(c) returns is the one appended
\* to history; its emissions are numbered from 0 and carry the tokens passed
\* to record_token since start_turn, in call order; its agent is the one
\* given to start_turn and its content is c.
C8_SequentialTurn ==
    LET r == result[MainThread] IN
    (r.op = "end_turn" /\ r.status = "returned" /\ r.ret # None)
    => LET turn == LastTurn IN
       /\ turn.turn_id = Val(r.ret)
       /\ SeqInOrder(turn)
       /\ Len(turn.token_emissions) = Len(sinceStart.tokens)
       /\ \A i \in 1..Len(turn.token_emissions) :
            turn.token_emissions[i].token = sinceStart.tokens[i]
       /\ turn.agent_id = sinceStart.agent
       /\ turn.content = l_text[MainThread]

\* C8 witness: the second turn of the history holds two different tokens
\* and a content that is not their concatenation
C8_Witness ==
    /\ result[MainThread].op = "end_turn"
    /\ result[MainThread].ret # None
    /\ Len(_turns) = 2
    /\ Len(LastTurn.token_emissions) = 2
    /\ LastTurn.token_emissions[1].token # LastTurn.token_emissions[2].token
    /\ LastTurn.content # Concat(sinceStart.tokens)

\* a step in which record_token is called
RecordTokenCalled == Len(sinceStart'.tokens) = Len(sinceStart.tokens) + 1

\* C9: a record_token call made while no turn is in progress returns at
\* once without raising and leaves history, the turn counter, the sequence
\* counter and the in-progress slot as they were.
C9_RecordTokenNoTurn ==
    [][(RecordTokenCalled /\ _current_turn = None)
       => /\ UNCHANGED <<_turns, _turn_counter, _current_seq, _current_turn>>
          /\ UNCHANGED pc
          /\ \E t \in Threads : result'[t] = Returned("record_token", None)
          /\ \A t \in Threads :
               result'[t].status \in {"raised", "running"} => result'[t] = result[t]
      ]_vars

\* C9 witness: record_token returned although start_turn was never called
C9_Witness ==
    /\ result[MainThread] = Returned("record_token", None)
    /\ \A t \in Threads \ {MainThread} : result[t] = NoCall
    /\ _turn_counter = 0
    /\ sinceStart.tokens # <<>>

\* a step in which thread t calls end_turn: its outcome or its content
\* argument is new
EndTurnStep(t) ==
    /\ result'[t].op = "end_turn"
    /\ (result'[t] # result[t] \/ l_text'[t] # l_text[t])

\* C10: end_turn with no turn in progress returns None without raising and
\* leaves history and the turn counter as they were; after any end_turn no
\* turn is in progress, so a second end_turn appends nothing.
C10_EndTurnNoTurn ==
    [][\A t \in Threads :
         EndTurnStep(t)
         => /\ _current_turn' = None
            /\ (_current_turn = None
                => /\ result'[t] = Returned("end_turn", None)
                   /\ UNCHANGED <<_turns, _turn_counter, _current_seq>>)
      ]_vars

\* C10 witness: a second end_turn returned None after a first one had
\* finalized the only turn
C10_Witness ==
    /\ result[MainThread] = Returned("end_turn", None)
    /\ \A t \in Threads \ {MainThread} : result[t] = NoCall
    /\ Len(_turns) = 1
    /\ issued = <<1>>

\* a step in which some thread calls clear(), and one in which thread t
\* calls end_turn (whatever the content)
ClearStep == \E t \in Threads : Clear(t)
EndTurnCalled(t) == EndTurn(t, l_text'[t])
\* the store as clear() leaves it
Cleared == _turns = <<>> /\ _turn_counter = 0 /\ _current_turn = None

\* C11: clear() from any state leaves an empty history (get_turn_count() is
\* 0), a turn counter of 0 and no turn in progress; in the store as clear()
\* leaves it the next start_turn returns 1, a record_token call changes
\* nothing and raises nothing, and an end_turn returns None and adds nothing
\* to history.
C11_ClearResets ==
    [][/\ ClearStep => (Cleared' /\ get_turn_count' = 0
                          /\ get_all_turns_as_dicts' = <<>>)
       /\ (Cleared /\ issued' # issued)
            => /\ issued' = <<1>>
               /\ \E t \in Threads : result'[t] = Returned("start_turn", Some(1))
       /\ (Cleared /\ RecordTokenCalled)
            => /\ UNCHANGED storeVars
               /\ \A t \in Threads :
                    result'[t].status \in {"raised", "running"}
                      => result'[t] = result[t]
       /\ \A t \in Threads :
            (Cleared /\ EndTurnCalled(t))
            => /\ result'[t] = Returned("end_turn", None)
               /\ _turns' = <<>>
      ]_vars

\* C11 witness: one thread's last call is clear(), the other's last call is
\* an end_turn that had put a turn into history, tokens had been recorded,
\* and the store is empty with its counter at 0
C11_Witness ==
    /\ result[MainThread] = Returned("clear", None)
    /\ \E t \in Threads \ {MainThread} :
         result[t].op = "end_turn" /\ result[t].ret # None
    /\ sinceStart.tokens # <<>>
    /\ Cleared
    /\ get_turn_count = 0

\* C12: every turn in history has duration_ms = t_end_ms - t_start_ms and
\* duration_ms >= 0, the clock never going backwards, under every
\* interleaving of the store operations.
C12_Duration ==
    \A i \in 1..Len(_turns) :
      /\ _turns[i].duration_ms = _turns[i].t_end_ms - _turns[i].t_start_ms
      /\ _turns[i].duration_ms >= 0

\* C12 witness: a turn that took a millisecond, with a token recorded
\* before the clock moved, is in history
C12_Witness ==
    \E i \in 1..Len(_turns) :
      /\ _turns[i].duration_ms = 1
      /\ _turns[i].t_start_ms = 0
      /\ Len(_turns[i].token_emissions) >= 1
      /\ _turns[i].token_emissions[1].t_emitted_ms = 0

\* a step in which the caller changes a list it got from get_all_turns()
\* or an object in it
CallerMutates ==
    \/ SnapshotAppend
    \/ SnapshotRemove
    \/ \E i \in 1..(MaxTurns + 1) : SnapshotSetContent(i)
    \/ \E i \in 1..(MaxTurns + 1) : SnapshotClearEmissions(i)

\* C13 as stated: whatever the caller does to a list returned by
\* get_all_turns() or to a TurnTrace in it, get_all_turns(),
\* get_all_turns_as_dicts() and get_turn_count() return afterwards what
\* they returned before; and no store operation changes a list already
\* returned.
C13_SnapshotIsolated ==
    [][/\ CallerMutates
            => /\ _turns' = _turns
               /\ get_all_turns_as_dicts' = get_all_turns_as_dicts
               /\ get_turn_count' = get_turn_count
       /\ (snapshot # None /\ ~CallerMutates /\ ~GetAllTurns(MainThread))
            => ObjectsOf(Val(snapshot')) = ObjectsOf(Val(snapshot))
      ]_vars

\* C14: entering agent_context(X) makes X the thread's identifier and keeps
\* the value get_current_agent_id() returned just before; leaving the block,
\* normally or by an exception, makes that value the identifier again;
\* blocks end innermost first and the frames of the enclosing blocks are
\* untouched; and nothing a thread does changes another thread's
\* identifier.
C14_AgentContext ==
    [][\A t \in Threads :
         LET n == Len(ctx[t]) IN
         /\ Len(ctx'[t]) = n + 1
              => /\ get_current_agent_id(t)' = ctx'[t][n + 1].agent_id
                 /\ ctx'[t][n + 1].previous = get_current_agent_id(t)
                 /\ SubSeq(ctx'[t], 1, n) = ctx[t]
         /\ Len(ctx'[t]) = n - 1
              => /\ get_current_agent_id(t)' = ctx[t][n].previous
                 /\ ctx'[t] = SubSeq(ctx[t], 1, n - 1)
                 /\ result'[t].op = "agent_context"
         /\ Len(ctx'[t]) \in {n - 1, n, n + 1}
         /\ (ctx'[t] # ctx[t] \/ _attribution'[t] # _attribution[t])
              => \A u \in Threads \ {t} :
                   ctx'[u] = ctx[u] /\ _attribution'[u] = _attribution[u]
      ]_vars

\* C14 witness: a thread that had set Doctor1 and entered a block for
\* Doctor0 left a nested block by an exception and is Doctor0 again, while
\* the other thread is inside a block of its own as Doctor1
C14_Witness ==
    /\ result[MainThread] = Raised("agent_context")
    /\ ctx[MainThread] = <<ContextFrame("Doctor1", "Doctor0")>>
    /\ get_current_agent_id(MainThread) = "Doctor0"
    /\ \E t \in Threads \ {MainThread} :
         /\ Len(ctx[t]) = 2
         /\ get_current_agent_id(t) = "Doctor1"

\* C15: in every state, a second install() leaves the flag, the entry
\* point and the saved original as the first one left them, and an
\* install() that found the patch installed has changed nothing; an
\* uninstall() when the patch is not installed changes nothing.
C15_Idempotent ==
    /\ install_openai_patch(install_openai_patch(PatchState))
         = install_openai_patch(PatchState)
    /\ uninstall_openai_patch(uninstall_openai_patch(PatchState))
         = uninstall_openai_patch(PatchState)
    /\ ~is_patched => uninstall_openai_patch(PatchState) = PatchState
    /\ (patchCall.op = "install" /\ patchCall.before.patched)
         => PatchState = patchCall.before
    /\ (patchCall.op = "uninstall" /\ ~patchCall.before.patched)
         => PatchState = patchCall.before

\* C15 witness: install() was called while the patch was installed, after
\* an earlier uninstall had left the saved original behind
C15_Witness ==
    /\ patchCall.op = "install"
    /\ patchCall.before.patched
    /\ \E i \in 1..Len(clients) : clients[i].class = OriginalOpenAI

\* C16: after install() the patch reports installed and the entry point is
\* the wrapper; after uninstall() it reports not installed and the entry
\* point is the library's class that was there before the first install,
\* however many times the two have been called.
C16_InstallUninstall ==
    /\ patchCall.op = "install"
         => is_patched /\ openai.OpenAI = InstrumentedOpenAI
    /\ patchCall.op = "uninstall"
         => ~is_patched /\ openai.OpenAI = OriginalOpenAI
    /\ is_patched = (openai.OpenAI = InstrumentedOpenAI)

\* C16 witness: the entry point built a wrapper, then a plain client, then
\* a wrapper again, and the patch is uninstalled for the second time
C16_Witness ==
    /\ patchCall.op = "uninstall"
    /\ patchCall.before.patched
    /\ Len(clients) = 3
    /\ \A i \in 1..3 : clients[i].via = "openai.OpenAI"
    /\ clients[1].class = InstrumentedOpenAI
    /\ clients[2].class = OriginalOpenAI
    /\ clients[3].class = InstrumentedOpenAI

\* C17: the saved original is never the wrapper, and the client inside
\* every instrumented client is of the library's own class.
C17_NoSelfInterception ==
    /\ openai._OriginalOpenAI # Some(InstrumentedOpenAI)
    /\ OriginalClass(openai) = OriginalOpenAI
    /\ \A i \in 1..Len(clients) :
         clients[i].class = InstrumentedOpenAI
           => clients[i]._client = Some(OriginalOpenAI)

\* C17 witness: wrappers were built through the patched entry point, by
\* name before any install, and by name after an uninstall
C17_Witness ==
    /\ Len(clients) = 3
    /\ clients[1] = Client(InstrumentedOpenAI, Some(OriginalOpenAI), "InstrumentedOpenAI")
    /\ clients[2] = Client(InstrumentedOpenAI, Some(OriginalOpenAI), "openai.OpenAI")
    /\ clients[3] = Client(InstrumentedOpenAI, Some(OriginalOpenAI), "InstrumentedOpenAI")
    /\ patchCall.op = "uninstall"

\* the turn_ids of history, in order
HistoryIds == [i \in 1..Len(_turns) |-> _turns[i].turn_id]

\* C18: a step of any store operation of any thread other than clear()
\* leaves every turn of history as it is, in its place; a turn enters
\* history once, as the last entry, when end_turn takes it out of the
\* in-progress slot; only clear() removes turns.
C18_FinalizedOnce ==
    [][/\ ClearStep
          \/ /\ Len(_turns') \in {Len(_turns), Len(_turns) + 1}
             /\ SubSeq(_turns', 1, Len(_turns)) = _turns
       /\ Len(_turns') = Len(_turns) + 1
            => /\ _current_turn # None
               /\ _turns'[Len(_turns')].turn_id = Val(_current_turn).turn_id
               /\ _turns'[Len(_turns')].token_emissions
                    = Val(_current_turn).token_emissions
               /\ _current_turn' = None
               /\ NoDuplicates(HistoryIds')
      ]_vars

\* C18 witness: history holds two turns, the first with a token, and a
\* record_token that raced with the end of a turn has raised
C18_Witness ==
    /\ Len(_turns) = 2
    /\ Len(_turns[1].token_emissions) >= 1
    /\ \E t \in Threads : result[t] = Raised("record_token")

\* a step in which some thread calls start_turn
StartTurnStep == Len(issued') = Len(issued) + 1
\* turn_id k has been issued and is neither in history nor in progress
Discarded(k) ==
    /\ k \in 1.._turn_counter
    /\ \A i \in 1..Len(_turns) : _turns[i].turn_id # k
    /\ (_current_turn = None \/ Val(_current_turn).turn_id # k)
\* the same of the state a step leads to
DiscardedNext(k) ==
    /\ k \in 1.._turn_counter'
    /\ \A i \in 1..Len(_turns') : _turns'[i].turn_id # k
    /\ (_current_turn' = None \/ Val(_current_turn').turn_id # k)

\* C19: a start_turn that finds a turn in progress leaves history as it is
\* and puts a new turn with the next id and no emissions in the slot, with
\* the sequence counter at 0; the turn it replaced never enters history
\* afterwards; and what end_turn appends is the turn in the slot, the later
\* one.
C19_StartTurnOverwrites ==
    [][/\ (StartTurnStep /\ _current_turn # None)
            => /\ _turns' = _turns
               /\ _current_turn' # None
               /\ Val(_current_turn').turn_id = Val(_current_turn).turn_id + 1
               /\ Val(_current_turn').token_emissions = <<>>
               /\ _current_seq' = 0
               /\ DiscardedNext(Val(_current_turn).turn_id)
       /\ \A k \in 1.._turn_counter :
            Discarded(k) => (DiscardedNext(k) \/ ClearStep)
       /\ Len(_turns') = Len(_turns) + 1
            => _turns'[Len(_turns')].turn_id = _turn_counter
      ]_vars

\* C19 witness: turn 1 was started and given a token, turn 2 was started
\* over it and ended: history holds turn 2 alone
C19_Witness ==
    /\ issued = <<1, 2>>
    /\ HistoryIds = <<2>>
    /\ _turns[1].token_emissions = <<>>
    /\ \E t \in Threads : result[t] = Returned("record_token", None)
    /\ \E t \in Threads : result[t] = Returned("end_turn", Some(2))

\* the turn a create() call of thread t has opened is in the slot
TurnOpen(t) == call[t].cpc # "none" /\ _current_turn # None

\* C20: a create() call that does not ask for streaming opens one turn,
\* before any transport call, whose agent_id is the identifier of the
\* calling thread at that moment ("unknown" when none is set); while the
\* call is in flight no further turn is opened, and whatever happens to the
\* identifier the turn keeps its agent_id until it is finalized with it;
\* once it is finalized the call adds nothing more to history.
C20_AttributionAtStart ==
    [][\A t \in Threads :
         /\ (call[t].cpc = "none" /\ call'[t].cpc = "stream_call")
              => /\ call'[t].requests = <<>>
                 /\ _turn_counter' = _turn_counter + 1
                 /\ _turns' = _turns
                 /\ _current_turn' # None
                 /\ Val(_current_turn').turn_id = _turn_counter'
                 /\ Val(_current_turn').agent_id =
                      (IF _attribution[t] = None THEN "unknown"
                       ELSE Val(_attribution[t]))
         /\ call[t].cpc # "none" => _turn_counter' = _turn_counter
         /\ TurnOpen(t)
              => \/ /\ _current_turn' # None
                    /\ Val(_current_turn').agent_id = Val(_current_turn).agent_id
                    /\ Val(_current_turn').turn_id = Val(_current_turn).turn_id
                    /\ _turns' = _turns
                 \/ /\ _current_turn' = None
                    /\ _turns' = Append(_turns, _turns'[Len(_turns')])
                    /\ _turns'[Len(_turns')].agent_id = Val(_current_turn).agent_id
                    /\ _turns'[Len(_turns')].turn_id = Val(_current_turn).turn_id
         /\ (call[t].cpc # "none" /\ _current_turn = None)
              => (_turns' = _turns /\ _current_turn' = None)
      ]_vars

\* C20 witness: a call made with no identifier set, during which the
\* identifier became Doctor1, has finalized its turn as "unknown" and is
\* about to build its response; the call before it was made as Doctor0
C20_Witness ==
    /\ call[MainThread].cpc = "build"
    /\ Len(_turns) = 2
    /\ _turns[1].agent_id = "Doctor0"
    /\ _turns[2].agent_id = "unknown"
    /\ Len(_turns[2].token_emissions) = 1
    /\ _attribution[MainThread] = Some("Doctor1")

\* no chunk of the stream carries a finish reason / a usage payload
NoFinishReason(cs) ==
    \A i \in 1..Len(cs) :
       cs[i].choice = None \/ Val(cs[i].choice).finish_reason = None
NoUsage(cs) == \A i \in 1..Len(cs) : cs[i].usage = None

\* what a reconstructed response holds when nothing was reported: the
\* sentinel id and model, the time of the build in seconds, "stop", and a
\* usage record of no prompt tokens and one completion token per word
SentinelResponse(content) ==
    [kind |-> "ChatCompletion", id |-> "chatcmpl-instrumented",
     model |-> "unknown", created |-> now \div MillisPerSecond,
     role |-> "assistant", content |-> content, finish_reason |-> "stop",
     usage |-> [prompt_tokens |-> 0, completion_tokens |-> WordCount(content),
                total_tokens |-> WordCount(content)]]

\* the build step of a create() call answers the caller with the sentinel
\* response on the streaming path, the turn finalized with the joined
\* content
BuiltFromSentinels(t) ==
    LET content == Join(call[t].content_parts)
    IN /\ call'[t].status = "returned"
       /\ call'[t].response = Some(SentinelResponse(content))
       /\ call'[t].error = None
       /\ Len(call'[t].requests) = Len(call[t].requests)
       /\ \A i \in 1..Len(call'[t].requests) :
             call'[t].requests[i].kwargs.stream = "True"
       /\ _current_turn' = None
       /\ _turns' = _turns
       /\ LastTurn.turn_id = _turn_counter
       /\ LastTurn.content = content

OptionRejected(t) ==
    /\ call[t].requests # <<>>
    /\ call[t].kwargs.stream_options = "absent"
    /\ OptionInjected(call[t].requests[1])
    /\ call[t].requests[1].raised # None

\* the estimated usage record of a response
EstimatedUsage(response) ==
    [prompt_tokens |-> 0, completion_tokens |-> WordCount(response.content),
     total_tokens |-> WordCount(response.content)]

\* C22 as stated: when the transport rejects the request because of the
\* injected include-usage option, create() returns a response without
\* raising and the usage of that response is the estimated usage record.
C22_RejectedOptionEstimated ==
    \A t \in Threads :
      (Finished(t) /\ OptionRejected(t))
        => /\ call[t].status = "returned"
           /\ call[t].response # None
           /\ Val(call[t].response).usage = EstimatedUsage(Val(call[t].response))

\* C22: when the transport rejects the request because of the injected
\* include-usage option, the turn is closed with empty content and no
\* token, and the request is made again as the caller wrote it, without the
\* option: create() returns what that call returns, with the usage the
\* transport reports, and raises only what that call raises.  The usage is
\* the estimated record when the stream is delivered and none of its chunks
\* carries usage.
C22_RejectedOptionFallsBack ==
    \A t \in Threads :
      /\ (Finished(t) /\ OptionRejected(t))
           => /\ Len(call[t].requests) = 2
              /\ ~OptionInjected(call[t].requests[2])
              /\ call[t].requests[2].kwargs.stream # "True"
              /\ call[t].response = call[t].requests[2].returned
              /\ call[t].error = call[t].requests[2].raised
              /\ call[t].status = "returned" <=> call[t].response # None
              /\ call[t].status = "returned"
                   => Val(call[t].response).usage = TransportResponse.usage
              /\ LastTurn.turn_id = _turn_counter
              /\ LastTurn.content = <<>>
              /\ LastTurn.token_emissions = <<>>
      /\ (/\ Finished(t) /\ Instrumented(t)
          /\ call[t].failed_at = "none"
          /\ NoUsage(call[t].chunks))
           => Val(call[t].response).usage = EstimatedUsage(Val(call[t].response))

\* C22 witness: the second call of a caller who passes no stream_options
\* was rejected with the injected option and answered by the fallback call
C22_Witness ==
    /\ call[MainThread].status = "returned"
    /\ OptionRejected(MainThread)
    /\ call[MainThread].response = Some(TransportResponse)
    /\ Len(_turns) = 2
    /\ LastTurn.content = <<>>

\* C23: in sequential use, a create() call that did not ask for streaming
\* and found no turn in progress leaves none in progress when it returns or
\* raises, on whichever path, and history is then the history it found plus
\* one turn; and a call in flight comes to its end, with the turn it opened
\* closed.
C23_TurnAlwaysClosed ==
    /\ [](\A t \in Threads :
            (Finished(t) /\ Instrumented(t) /\ call[t].base.current_turn = None)
              => /\ _current_turn = None
                 /\ Len(_turns) = Len(call[t].base.turns) + 1
                 /\ SubSeq(_turns, 1, Len(call[t].base.turns)) = call[t].base.turns
                 /\ LastTurn.turn_id = call[t].base.turn_counter + 1)
    /\ \A t \in Threads :
         (call[t].cpc # "none" /\ _current_turn # None)
            ~> (Finished(t) /\ _current_turn = None)

\* C23 witness: a call whose response could not be built after the stream
\* was drained, and whose fallback call failed too, has raised; the call
\* before it had returned, and history holds the two turns
C23_Witness ==
    /\ call[MainThread].status = "raised"
    /\ call[MainThread].failed_at = "build"
    /\ call[MainThread].chunks # <<>>
    /\ Len(call[MainThread].base.turns) = 1
    /\ Len(_turns) = 2
    /\ _current_turn = None

\* a step of thread t's get_trace_collector() call
GetStep(t) == singleton'.get[t] # singleton.get[t]
\* the store has been used: its fields are not as __init__ leaves them
StoreUsed == _turns # <<>> \/ _turn_counter # 0 \/ _current_turn # None

\* C24 as stated: all calls of get_trace_collector() return the same
\* instance, and no call resets the history, the turn counter, the turn in
\* progress or the lock of a store another thread holds and has used.
C24_InitialisedOnce ==
    [][\A t \in Threads :
         /\ \A u \in Threads :
              (singleton'.get[t].got # None /\ singleton'.get[u].got # None)
                => singleton'.get[t].got = singleton'.get[u].got
         /\ (/\ GetStep(t)
             /\ StoreUsed
             /\ \E u \in Threads \ {t} : Holds(u))
              => /\ _turns' = _turns
                 /\ _turn_counter' = _turn_counter
                 /\ _current_turn' = _current_turn
                 /\ singleton'._data_lock = singleton._data_lock
      ]_vars

\* C25 as stated: whatever the interleaving of start_turn, record_token
\* and end_turn, every emission of a finalized turn was emitted between the
\* turn's start and its end, and the emission times do not decrease in seq
\* order.
C25_TimestampsOrdered ==
    \A i \in 1..Len(_turns) :
      LET turn == _turns[i]
          n == Len(turn.token_emissions)
      IN /\ \A j \in 1..n :
              /\ turn.t_start_ms <= turn.token_emissions[j].t_emitted_ms
              /\ turn.token_emissions[j].t_emitted_ms <= turn.t_end_ms
         /\ \A j \in 1..n : \A k \in j..n :
              turn.token_emissions[j].t_emitted_ms
                <= turn.token_emissions[k].t_emitted_ms

\* C26: what create() was called with is what its kwargs hold at every
\* point of the call and after it; the streaming call is made with these
\* arguments, stream forced on and the include-usage option added where
\* the caller gave no stream_options, and the fallback call with the
\* caller's arguments as they were, neither of the two in them.
C26_RequestUntouched ==
    \A t \in Threads :
      /\ call[t].kwargs = call[t].request
      /\ (Instrumented(t) /\ Len(call[t].requests) >= 1)
           => /\ call[t].requests[1].kwargs.stream = "True"
              /\ call[t].requests[1].kwargs.stream_options =
                   (IF call[t].request.stream_options = "absent"
                      THEN "include_usage" ELSE call[t].request.stream_options)
      /\ (Instrumented(t) /\ Len(call[t].requests) >= 2)
           => /\ call[t].requests[2].kwargs = call[t].request
              /\ call[t].requests[2].kwargs.stream # "True"
              /\ call[t].requests[2].kwargs.stream_options # "include_usage"

\* C26 witness: a call made without arguments has sent the streaming
\* request with both entries added, drained a stream, failed to build the
\* response and sent the fallback request without arguments
C26_Witness ==
    /\ call[MainThread].status = "returned"
    /\ call[MainThread].request = NoKwargs
    /\ call[MainThread].failed_at = "build"
    /\ Len(call[MainThread].requests) = 2
    /\ call[MainThread].requests[1].kwargs = Kwargs("True", "include_usage")
    /\ call[MainThread].requests[2].kwargs = NoKwargs
    /\ call[MainThread].kwargs = NoKwargs

====
